---- MODULE Spec2Model ----
(***************************************************************************)
(* Board support layer of the ESP32-S3-Korvo-1                             *)
(* (bsp/esp32_s3_korvo_1/esp32_s3_korvo_1.c): control-bus bring-up, audio  *)
(* endpoint composition, ADC button array, LED indicator, SPIFFS and       *)
(* SD-card mounting.                                                       *)
(*                                                                         *)
(* Every public function is one action; the action runs the whole function *)
(* and records, for the call just made, its name (op), its arguments       *)
(* (args), its return value (ret) and the driver calls it issued, in       *)
(* order, with their results (calls).  The drivers underneath (I2C, ADC,   *)
(* iot_button, SPIFFS, FAT/SDMMC) are the environment: a driver call may   *)
(* succeed or fail, and fails where its API documents that it must.        *)
(*                                                                         *)
(* esp_err_t and pointers are integers, as in C: ESP_OK and NULL are both  *)
(* 0.  The BSP_ERROR_CHECK_* macros are modelled in their returning        *)
(* (non-aborting) configuration.                                           *)
(***************************************************************************)
EXTENDS Integers, Sequences, FiniteSets, TLC

\* ------------------------------------------------------------ constants
ESP_OK == 0
ESP_FAIL == -1
ESP_ERR_INVALID_ARG == 258
ESP_ERR_INVALID_STATE == 259
NULL == 0

BSP_BUTTON_NUM == 6

\* logical button ids, in the order of the bsp_button_t enumeration
BSP_BUTTON_REC == 0
BSP_BUTTON_MODE == 1
BSP_BUTTON_PLAY == 2
BSP_BUTTON_SET == 3
BSP_BUTTON_VOLDOWN == 4
BSP_BUTTON_VOLUP == 5

\* ------------------------------------------------------------ bounds
\* the caller's handle array holds BSP_BUTTON_NUM + ExtraCapacity entries
ExtraCapacity == 1
\* distinct addresses the SD driver may give a card structure
MaxCard == 2
\* threads that call bsp_i2c_init concurrently (two race; a third may come before, between or after)
NumThreads == 3
\* samples are taken up to SampleSlack mV on either side of every range bound
SampleSlack == 1

VARIABLES
    i2c_initialized,    \* static bool i2c_initialized
    bsp_sdcard,         \* sdmmc_card_t *bsp_sdcard
    bsp_adc_handle,     \* static adc_oneshot_unit_handle_t bsp_adc_handle
    i2c_installed,      \* driver: the I2C driver of BSP_I2C_NUM is installed
    adc_unit,           \* driver: the ADC oneshot unit handle, NULL if none
    spiffs_registered,  \* driver: the SPIFFS partition is registered with VFS
    sd_card,            \* driver: the card structure of the mounted card, NULL if none
    btn_array,          \* caller: the button handle array
    btn_cnt,            \* caller: the int that btn_cnt points to
    i2c_cycle_open,     \* history: bsp_i2c_init returned ESP_OK and no bsp_i2c_deinit was called since
    i2s_data_if_spk,    \* audio: the streaming interface bsp_audio_get_codec_itf_spk gives, NULL if none
    i2s_data_if_mic,    \* audio: the streaming interface bsp_audio_get_codec_itf_mic gives, NULL if none
    led_array,          \* caller: led_array[0]
    pc,                 \* threads: where each thread is inside bsp_i2c_init
    seen,               \* threads: the value of i2c_initialized each thread read at line 30
    tret,               \* threads: what bsp_i2c_init returned to each thread whose pc is "done"
    double_install,     \* threads: i2c_driver_install was invoked on an installed driver
    op, args, ret, calls

vars == <<i2c_initialized, bsp_sdcard, bsp_adc_handle, i2c_installed, adc_unit,
          spiffs_registered, sd_card, btn_array, btn_cnt, i2c_cycle_open,
          i2s_data_if_spk, i2s_data_if_mic, led_array, pc, seen, tret,
          double_install, op, args, ret, calls>>

i2c_vars == <<i2c_initialized, i2c_installed, i2c_cycle_open>>
btn_vars == <<bsp_adc_handle, adc_unit, btn_array, btn_cnt>>
spiffs_vars == <<spiffs_registered>>
sd_vars == <<bsp_sdcard, sd_card>>
audio_vars == <<i2s_data_if_spk, i2s_data_if_mic>>
led_vars == <<led_array>>
thr_vars == <<pc, seen, tret, double_install>>

NoArgs == [none |-> TRUE]
Call(fn, rc) == [fn |-> fn, rc |-> rc]

\* results a driver call may give when nothing forces its outcome
DriverRc == {ESP_OK, ESP_FAIL}

\* BSP_ERROR_CHECK_RETURN_ERR(x), BSP_ERROR_CHECK_RETURN_NULL(x): the function
\* returns at once when x is not ESP_OK
BSP_ERROR_CHECK_FAILS(rc) == rc # ESP_OK
\* BSP_ERROR_CHECK_RETURN_ERR returns the error code itself
BSP_ERROR_CHECK_RETURN_ERR(rc) == rc
\* BSP_ERROR_CHECK_RETURN_NULL returns NULL, whatever the error code was
BSP_ERROR_CHECK_RETURN_NULL(rc) == NULL

ArrayCap == BSP_BUTTON_NUM + ExtraCapacity

Threads == 1..NumThreads

Init ==
    /\ i2c_initialized = FALSE
    /\ bsp_sdcard = NULL
    /\ bsp_adc_handle = NULL
    /\ i2c_installed = FALSE
    /\ adc_unit = NULL
    /\ spiffs_registered = FALSE
    /\ sd_card = NULL
    /\ btn_array = [i \in 0..(ArrayCap - 1) |-> NULL]
    /\ btn_cnt = -1
    /\ i2c_cycle_open = FALSE
    /\ i2s_data_if_spk = NULL
    /\ i2s_data_if_mic = NULL
    /\ led_array = NULL
    /\ pc = [t \in Threads |-> "start"]
    /\ seen = [t \in Threads |-> "unread"]
    /\ tret = [t \in Threads |-> ESP_OK]
    /\ double_install = FALSE
    /\ op = "none"
    /\ args = NoArgs
    /\ ret = ESP_OK
    /\ calls = <<>>

\* ------------------------------------------------------------ control bus

\* i2c_driver_install: fails when the driver is already installed
i2c_driver_install_rc == IF i2c_installed THEN {ESP_FAIL} ELSE DriverRc
\* i2c_driver_delete: fails when no driver is installed
i2c_driver_delete_rc == IF i2c_installed THEN DriverRc ELSE {ESP_FAIL}

\* bsp_i2c_init with the early return taken when `skip` holds
I2cInit(skip) ==
    /\ op' = "bsp_i2c_init"
    /\ args' = NoArgs
    /\ IF skip
       THEN /\ ret' = ESP_OK
            /\ calls' = <<>>
            /\ UNCHANGED <<i2c_initialized, i2c_installed>>
       ELSE \E rc1 \in DriverRc :
              IF BSP_ERROR_CHECK_FAILS(rc1)
              THEN /\ ret' = BSP_ERROR_CHECK_RETURN_ERR(rc1)
                   /\ calls' = <<Call("i2c_param_config", rc1)>>
                   /\ UNCHANGED <<i2c_initialized, i2c_installed>>
              ELSE \E rc2 \in i2c_driver_install_rc :
                     /\ calls' = <<Call("i2c_param_config", rc1),
                                   Call("i2c_driver_install", rc2)>>
                     /\ IF BSP_ERROR_CHECK_FAILS(rc2)
                        THEN /\ ret' = BSP_ERROR_CHECK_RETURN_ERR(rc2)
                             /\ UNCHANGED <<i2c_initialized, i2c_installed>>
                        ELSE /\ ret' = ESP_OK
                             /\ i2c_initialized' = TRUE
                             /\ i2c_installed' = TRUE
    /\ i2c_cycle_open' = (i2c_cycle_open \/ ret' = ESP_OK)
    /\ UNCHANGED <<btn_vars, spiffs_vars, sd_vars, audio_vars, led_vars, thr_vars>>

bsp_i2c_init_always_installs == I2cInit(FALSE)

\* bsp_i2c_init with line 45 moved above line 43: the flag is set before
\* i2c_driver_install is known to have succeeded
bsp_i2c_init_flag_before_install ==
    /\ op' = "bsp_i2c_init"
    /\ args' = NoArgs
    /\ IF i2c_initialized
       THEN /\ ret' = ESP_OK
            /\ calls' = <<>>
            /\ UNCHANGED <<i2c_initialized, i2c_installed>>
       ELSE \E rc1 \in DriverRc :
              IF BSP_ERROR_CHECK_FAILS(rc1)
              THEN /\ ret' = BSP_ERROR_CHECK_RETURN_ERR(rc1)
                   /\ calls' = <<Call("i2c_param_config", rc1)>>
                   /\ UNCHANGED <<i2c_initialized, i2c_installed>>
              ELSE \E rc2 \in i2c_driver_install_rc :
                     /\ calls' = <<Call("i2c_param_config", rc1),
                                   Call("i2c_driver_install", rc2)>>
                     /\ i2c_initialized' = TRUE
                     /\ ret' = rc2
                     /\ i2c_installed' = (rc2 = ESP_OK)
    /\ i2c_cycle_open' = (i2c_cycle_open \/ ret' = ESP_OK)
    /\ UNCHANGED <<btn_vars, spiffs_vars, sd_vars, audio_vars, led_vars, thr_vars>>

bsp_i2c_init == I2cInit(i2c_initialized)

\* bsp_i2c_deinit; `clear_on_error` is whether the flag is also cleared when
\* i2c_driver_delete fails
I2cDeinit(clear_on_error) ==
    /\ op' = "bsp_i2c_deinit"
    /\ args' = NoArgs
    /\ \E rc \in i2c_driver_delete_rc :
         /\ calls' = <<Call("i2c_driver_delete", rc)>>
         /\ IF BSP_ERROR_CHECK_FAILS(rc)
            THEN /\ ret' = BSP_ERROR_CHECK_RETURN_ERR(rc)
                 /\ i2c_initialized' = (i2c_initialized /\ ~clear_on_error)
                 /\ UNCHANGED i2c_installed
            ELSE /\ ret' = ESP_OK
                 /\ i2c_initialized' = FALSE
                 /\ i2c_installed' = FALSE
    /\ i2c_cycle_open' = FALSE
    /\ UNCHANGED <<btn_vars, spiffs_vars, sd_vars, audio_vars, led_vars, thr_vars>>

bsp_i2c_deinit_clears_first == I2cDeinit(TRUE)

bsp_i2c_deinit == I2cDeinit(FALSE)

\* ------------------------------------------------------------ buttons

\* one entry of bsp_button_config: an ADC button on ADC_CHANNEL_7 with its range in mV
ButtonRange(id, lo, hi) == [adc_channel |-> 7, button_index |-> id, min |-> lo, max |-> hi]

bsp_button_config_mode_reaches_rec ==
    <<ButtonRange(BSP_BUTTON_REC, 2310, 2510),
      ButtonRange(BSP_BUTTON_MODE, 1880, 2380),
      ButtonRange(BSP_BUTTON_PLAY, 1560, 1760),
      ButtonRange(BSP_BUTTON_SET, 1010, 1210),
      ButtonRange(BSP_BUTTON_VOLDOWN, 720, 920),
      ButtonRange(BSP_BUTTON_VOLUP, 280, 480)>>

\* bsp_button_config, in table order
bsp_button_config ==
    <<ButtonRange(BSP_BUTTON_REC, 2310, 2510),
      ButtonRange(BSP_BUTTON_MODE, 1880, 2080),
      ButtonRange(BSP_BUTTON_PLAY, 1560, 1760),
      ButtonRange(BSP_BUTTON_SET, 1010, 1210),
      ButtonRange(BSP_BUTTON_VOLDOWN, 720, 920),
      ButtonRange(BSP_BUTTON_VOLUP, 280, 480)>>

\* the buttons whose range holds a sample of v mV, bounds included
classify(v) ==
    {bsp_button_config[i].button_index :
        i \in {j \in 1..BSP_BUTTON_NUM :
                 bsp_button_config[j].min <= v /\ v <= bsp_button_config[j].max}}

\* sampled voltages: around every bound of every range, inside the ranges and
\* in the gaps between them
Samples ==
    UNION {{bsp_button_config[i].min - d, bsp_button_config[i].min + d,
            bsp_button_config[i].max - d, bsp_button_config[i].max + d} :
           i \in 1..BSP_BUTTON_NUM, d \in 0..SampleSlack}
    \cup {2400, 2000, 2200, 1660, 1100, 820, 380, 0, 3300}

\* one ADC reading of the button channel, resolved to the buttons it matches
adc_button_sample ==
    \E v \in Samples :
      /\ op' = "adc_button_sample"
      /\ args' = [voltage |-> v]
      /\ ret' = classify(v)
      /\ calls' = <<>>
      /\ UNCHANGED <<i2c_vars, btn_vars, spiffs_vars, sd_vars, audio_vars, led_vars, thr_vars>>

\* the address of the ADC oneshot unit
ADC_UNIT_HANDLE == 1
\* the handle iot_button_create gives for table entry i (0-based) when it succeeds
ButtonHandle(i) == i + 1

\* bsp_adc_initialize: a no-op once the unit exists, else it creates the unit
bsp_adc_initialize_rc == IF adc_unit # NULL THEN {ESP_OK} ELSE DriverRc

ButtonArgs ==
    [btn_array_null : BOOLEAN, btn_cnt_null : BOOLEAN, btn_array_size : 0..ArrayCap]

ButtonArgsRejected_both_needed(a) ==
    (a.btn_array_size < BSP_BUTTON_NUM) /\ a.btn_array_null

\* the argument check of bsp_iot_button_create
ButtonArgsRejected(a) ==
    (a.btn_array_size < BSP_BUTTON_NUM) \/ a.btn_array_null

\* the creation loop of bsp_iot_button_create from index i on: `made[j]` is
\* whether iot_button_create succeeds for table entry j (the loop stops at the
\* first failure, so the environment chooses only the index k of that failure,
\* k = BSP_BUTTON_NUM for none); a store through a NULL btn_array or btn_cnt
\* leaves the caller's memory as it is
RECURSIVE ButtonLoop(_, _, _, _, _, _)
ButtonLoop(i, arr, cnt, log, made, a) ==
    IF i >= BSP_BUTTON_NUM
    THEN [arr |-> arr, cnt |-> cnt, ret |-> ESP_OK, log |-> log]
    ELSE LET h == IF made[i] THEN ButtonHandle(i) ELSE NULL
             arr1 == IF a.btn_array_null THEN arr ELSE [arr EXCEPT ![i] = h]
             log1 == Append(log, Call("iot_button_create", h))
         IN  IF h = NULL
             THEN [arr |-> arr1, cnt |-> cnt, ret |-> ESP_FAIL, log |-> log1]
             ELSE ButtonLoop(i + 1, arr1,
                             IF a.btn_cnt_null THEN cnt ELSE cnt + 1,
                             log1, made, a)

bsp_iot_button_create ==
    \E a \in ButtonArgs :
      /\ op' = "bsp_iot_button_create"
      /\ args' = a
      /\ IF ButtonArgsRejected(a)
         THEN /\ ret' = ESP_ERR_INVALID_ARG
              /\ calls' = <<>>
              /\ UNCHANGED btn_vars
         ELSE \E rc \in bsp_adc_initialize_rc :
                IF BSP_ERROR_CHECK_FAILS(rc)
                THEN /\ ret' = BSP_ERROR_CHECK_RETURN_NULL(rc)
                     /\ calls' = <<Call("bsp_adc_initialize", rc)>>
                     /\ UNCHANGED btn_vars
                ELSE \E k \in 0..BSP_BUTTON_NUM :
                       LET made == [i \in 0..(BSP_BUTTON_NUM - 1) |-> i # k]
                           r == ButtonLoop(0, btn_array,
                                           IF a.btn_cnt_null THEN btn_cnt ELSE 0,
                                           <<Call("bsp_adc_initialize", rc)>>, made, a)
                       IN  /\ adc_unit' = ADC_UNIT_HANDLE
                           /\ bsp_adc_handle' = ADC_UNIT_HANDLE
                           /\ btn_array' = r.arr
                           /\ btn_cnt' = r.cnt
                           /\ ret' = r.ret
                           /\ calls' = r.log
      /\ UNCHANGED <<i2c_vars, spiffs_vars, sd_vars, audio_vars, led_vars, thr_vars>>

\* ------------------------------------------------------------ storage

CallArg(fn, arg, rc) == [fn |-> fn, arg |-> arg, rc |-> rc]

\* esp_vfs_spiffs_register: ESP_ERR_INVALID_STATE when already registered
esp_vfs_spiffs_register_rc ==
    IF spiffs_registered THEN {ESP_ERR_INVALID_STATE} ELSE DriverRc
\* esp_spiffs_info on the partition just registered
esp_spiffs_info_rc == DriverRc
\* esp_vfs_spiffs_unregister: ESP_ERR_INVALID_STATE when not registered
esp_vfs_spiffs_unregister_rc ==
    IF spiffs_registered THEN {ESP_OK} ELSE {ESP_ERR_INVALID_STATE}

\* bsp_spiffs_mount: ret_val is assigned the result of esp_spiffs_info and
\* returned
bsp_spiffs_mount ==
    /\ op' = "bsp_spiffs_mount"
    /\ args' = NoArgs
    /\ \E rc1 \in esp_vfs_spiffs_register_rc :
         IF BSP_ERROR_CHECK_FAILS(rc1)
         THEN /\ ret' = BSP_ERROR_CHECK_RETURN_ERR(rc1)
              /\ calls' = <<Call("esp_vfs_spiffs_register", rc1)>>
              /\ UNCHANGED spiffs_registered
         ELSE \E rc2 \in esp_spiffs_info_rc :
                /\ spiffs_registered' = TRUE
                /\ calls' = <<Call("esp_vfs_spiffs_register", rc1),
                              Call("esp_spiffs_info", rc2)>>
                /\ ret' = rc2
    /\ UNCHANGED <<i2c_vars, btn_vars, sd_vars, audio_vars, led_vars, thr_vars>>

bsp_spiffs_unmount ==
    /\ op' = "bsp_spiffs_unmount"
    /\ args' = NoArgs
    /\ \E rc \in esp_vfs_spiffs_unregister_rc :
         /\ calls' = <<Call("esp_vfs_spiffs_unregister", rc)>>
         /\ ret' = rc
         /\ spiffs_registered' = (spiffs_registered /\ rc # ESP_OK)
    /\ UNCHANGED <<i2c_vars, btn_vars, sd_vars, audio_vars, led_vars, thr_vars>>

\* esp_vfs_fat_sdmmc_mount: ESP_ERR_INVALID_STATE when a card is already mounted
esp_vfs_fat_sdmmc_mount_rc ==
    IF sd_card # NULL THEN {ESP_ERR_INVALID_STATE} ELSE DriverRc
\* esp_vfs_fat_sdcard_unmount(card): ESP_ERR_INVALID_STATE when nothing is
\* mounted, ESP_ERR_INVALID_ARG when card is not the mounted card
esp_vfs_fat_sdcard_unmount_rc(card) ==
    IF sd_card = NULL THEN ESP_ERR_INVALID_STATE
    ELSE IF card # sd_card THEN ESP_ERR_INVALID_ARG
    ELSE ESP_OK

\* bsp_sdcard_mount: the driver stores the new card structure through
\* &bsp_sdcard on success only
bsp_sdcard_mount ==
    /\ op' = "bsp_sdcard_mount"
    /\ args' = NoArgs
    /\ \E rc \in esp_vfs_fat_sdmmc_mount_rc :
         /\ calls' = <<Call("esp_vfs_fat_sdmmc_mount", rc)>>
         /\ ret' = rc
         /\ IF rc = ESP_OK
            THEN \E c \in 1..MaxCard : sd_card' = c /\ bsp_sdcard' = c
            ELSE UNCHANGED <<sd_card, bsp_sdcard>>
    /\ UNCHANGED <<i2c_vars, btn_vars, spiffs_vars, audio_vars, led_vars, thr_vars>>

\* bsp_sdcard_unmount: the driver frees the card structure on success;
\* bsp_sdcard keeps its value
bsp_sdcard_unmount ==
    /\ op' = "bsp_sdcard_unmount"
    /\ args' = NoArgs
    /\ LET rc == esp_vfs_fat_sdcard_unmount_rc(bsp_sdcard)
       IN  /\ calls' = <<CallArg("esp_vfs_fat_sdcard_unmount", bsp_sdcard, rc)>>
           /\ ret' = rc
           /\ sd_card' = IF rc = ESP_OK THEN NULL ELSE sd_card
    /\ UNCHANGED <<bsp_sdcard, i2c_vars, btn_vars, spiffs_vars, audio_vars, led_vars, thr_vars>>

\* ------------------------------------------------------------ audio endpoints

\* the streaming interfaces of the two roles, once bsp_audio_init has made them
I2S_DATA_IF_SPK == 1
I2S_DATA_IF_MIC == 2
\* the address of an object a constructor has just allocated
OBJECT == 1
\* what a constructor returns: a new object, or NULL when it fails
NewObject(ok) == IF ok THEN OBJECT ELSE NULL

\* bsp_audio_init: a no-op once both streaming interfaces exist, else it sets
\* up the I2S peripheral and makes both interfaces, or fails and makes none
bsp_audio_init_rc ==
    IF i2s_data_if_spk # NULL /\ i2s_data_if_mic # NULL THEN {ESP_OK} ELSE DriverRc

bsp_audio_init ==
    /\ op' = "bsp_audio_init"
    /\ args' = NoArgs
    /\ \E rc \in bsp_audio_init_rc :
         /\ ret' = rc
         /\ calls' = <<>>
         /\ IF rc = ESP_OK
            THEN /\ i2s_data_if_spk' = I2S_DATA_IF_SPK
                 /\ i2s_data_if_mic' = I2S_DATA_IF_MIC
            ELSE UNCHANGED audio_vars
    /\ UNCHANGED <<i2c_vars, btn_vars, spiffs_vars, sd_vars, led_vars, thr_vars>>

\* bsp_i2c_init called from inside another function: its result, the flag and
\* driver state it leaves and the driver calls it made, when i2c_param_config
\* gives rc1 and i2c_driver_install gives rc2
bsp_i2c_init_call(rc1, rc2) ==
    LET rc_install == IF i2c_installed THEN ESP_FAIL ELSE rc2
    IN  IF i2c_initialized
        THEN [ret |-> ESP_OK, flag |-> i2c_initialized,
              installed |-> i2c_installed, log |-> <<>>]
        ELSE IF BSP_ERROR_CHECK_FAILS(rc1)
        THEN [ret |-> BSP_ERROR_CHECK_RETURN_ERR(rc1), flag |-> i2c_initialized,
              installed |-> i2c_installed,
              log |-> <<Call("i2c_param_config", rc1)>>]
        ELSE IF BSP_ERROR_CHECK_FAILS(rc_install)
        THEN [ret |-> BSP_ERROR_CHECK_RETURN_ERR(rc_install),
              flag |-> i2c_initialized, installed |-> i2c_installed,
              log |-> <<Call("i2c_param_config", rc1),
                        Call("i2c_driver_install", rc_install)>>]
        ELSE [ret |-> ESP_OK, flag |-> TRUE, installed |-> TRUE,
              log |-> <<Call("i2c_param_config", rc1),
                        Call("i2c_driver_install", rc_install)>>]

\* what the environment decides during one composition: the results of the
\* two I2C driver calls and of bsp_audio_init, and whether each constructor
\* succeeds
ComposeOutcomes ==
    [cfg : DriverRc, inst : DriverRc, audio : DriverRc,
     gpio : BOOLEAN, ctrl : BOOLEAN, codec : BOOLEAN, dev : BOOLEAN]

Roles == {"spk", "mic"}
ComposerOf(role) ==
    IF role = "spk" THEN "bsp_audio_codec_speaker_init"
    ELSE "bsp_audio_codec_microphone_init"
CodecNewOf(role) == IF role = "spk" THEN "es8311_codec_new" ELSE "es7210_codec_new"

\* one run of bsp_audio_codec_speaker_init ("spk") or
\* bsp_audio_codec_microphone_init ("mic") under outcomes o: the value
\* returned, the calls made and the state left.  `lazy` is whether the
\* streaming interface is found absent (the branch of lines 60-66, 110-116 is
\* taken); `check_ctrl` is whether a NULL control interface is checked (lines
\* 76, 124).  After a successful bsp_audio_init the interface of the role
\* exists, so the assert of lines 67, 117 passes.
ComposeRun(role, lazy, check_ctrl, o) ==
    LET start == [flag |-> i2c_initialized, installed |-> i2c_installed,
                  spk |-> i2s_data_if_spk, mic |-> i2s_data_if_mic,
                  bus_ok |-> FALSE]
        bus == bsp_i2c_init_call(o.cfg, o.inst)
        st_bus == [start EXCEPT !.flag = bus.flag, !.installed = bus.installed,
                                !.bus_ok = (bus.ret = ESP_OK)]
        log_bus == Append(bus.log, Call("bsp_i2c_init", bus.ret))
        rc_audio == IF i2s_data_if_spk # NULL /\ i2s_data_if_mic # NULL
                    THEN ESP_OK ELSE o.audio
        log_audio == Append(log_bus, Call("bsp_audio_init", rc_audio))
        st_audio == [st_bus EXCEPT !.spk = I2S_DATA_IF_SPK, !.mic = I2S_DATA_IF_MIC]
        Done(st, log, value) == [ret |-> value, log |-> log, st |-> st]
        Build(st, log) ==
            LET data_if == IF role = "spk" THEN st.spk ELSE st.mic
                log1 == IF role = "spk"
                        THEN Append(log, Call("audio_codec_new_gpio", NewObject(o.gpio)))
                        ELSE log
                ctrl == NewObject(o.ctrl)
                log2 == Append(log1, Call("audio_codec_new_i2c_ctrl", ctrl))
                codec == NewObject(o.codec)
                log3 == Append(log2, Call(CodecNewOf(role), codec))
                dev == NewObject(o.dev)
                log4 == Append(log3, CallArg("esp_codec_dev_new", data_if, dev))
            IN  IF check_ctrl /\ ctrl = NULL THEN Done(st, log2, NULL)
                ELSE IF codec = NULL THEN Done(st, log3, NULL)
                ELSE Done(st, log4, dev)
    IN  IF ~lazy THEN Build(start, <<>>)
        ELSE IF BSP_ERROR_CHECK_FAILS(bus.ret)
        THEN Done(st_bus, log_bus, BSP_ERROR_CHECK_RETURN_NULL(bus.ret))
        ELSE IF BSP_ERROR_CHECK_FAILS(rc_audio)
        THEN Done(st_bus, log_audio, BSP_ERROR_CHECK_RETURN_NULL(rc_audio))
        ELSE Build(st_audio, log_audio)

Compose(role, lazy, check_ctrl) ==
    \E o \in ComposeOutcomes :
      LET r == ComposeRun(role, lazy, check_ctrl, o)
      IN  /\ op' = ComposerOf(role)
          /\ args' = NoArgs
          /\ ret' = r.ret
          /\ calls' = r.log
          /\ i2c_initialized' = r.st.flag
          /\ i2c_installed' = r.st.installed
          /\ i2c_cycle_open' = (i2c_cycle_open \/ r.st.bus_ok)
          /\ i2s_data_if_spk' = r.st.spk
          /\ i2s_data_if_mic' = r.st.mic
          /\ UNCHANGED <<btn_vars, spiffs_vars, sd_vars, led_vars, thr_vars>>

bsp_audio_codec_speaker_init_ctrl_unchecked ==
    Compose("spk", i2s_data_if_spk = NULL, FALSE)

bsp_audio_codec_speaker_init == Compose("spk", i2s_data_if_spk = NULL, TRUE)

bsp_audio_codec_microphone_init_always_inits == Compose("mic", TRUE, TRUE)

bsp_audio_codec_microphone_init == Compose("mic", i2s_data_if_mic = NULL, TRUE)

\* ------------------------------------------------------------ indicator

\* largest led_array_size a caller passes
MaxLedCapacity == 2

LedArgs ==
    [led_array_null : BOOLEAN, led_cnt_null : BOOLEAN,
     led_array_size : 0..MaxLedCapacity]

\* bsp_led_indicator_create: only led_array is checked; led_cnt and
\* led_array_size are not used
bsp_led_indicator_create ==
    \E a \in LedArgs :
      /\ op' = "bsp_led_indicator_create"
      /\ args' = a
      /\ IF a.led_array_null
         THEN /\ ret' = ESP_ERR_INVALID_ARG
              /\ calls' = <<>>
              /\ UNCHANGED led_array
         ELSE \E ok \in BOOLEAN :
                /\ led_array' = NewObject(ok)
                /\ calls' = <<Call("led_indicator_create", NewObject(ok))>>
                /\ ret' = IF NewObject(ok) = NULL THEN ESP_FAIL ELSE ESP_OK
      /\ UNCHANGED <<i2c_vars, btn_vars, spiffs_vars, sd_vars, audio_vars, thr_vars>>

\* ------------------------------------------------------------ threads

\* Each thread calls bsp_i2c_init once; the function runs as four steps that
\* other threads may interleave with: the read of the flag (line 30),
\* i2c_param_config (line 42), i2c_driver_install (line 43) and the store to
\* the flag with the return (lines 45-47).

NonThreadVars ==
    <<btn_vars, spiffs_vars, sd_vars, audio_vars, led_vars, op, args, ret, calls>>

\* line 30, proceeding to line 42 when `proceed` holds and returning ESP_OK
\* otherwise
ThreadCheck(t, proceed) ==
    /\ pc[t] = "start"
    /\ seen' = [seen EXCEPT ![t] = IF i2c_initialized THEN "true" ELSE "false"]
    /\ IF proceed
       THEN /\ pc' = [pc EXCEPT ![t] = "config"]
            /\ UNCHANGED <<tret, i2c_cycle_open>>
       ELSE /\ pc' = [pc EXCEPT ![t] = "done"]
            /\ tret' = [tret EXCEPT ![t] = ESP_OK]
            /\ i2c_cycle_open' = TRUE
    /\ UNCHANGED <<i2c_initialized, i2c_installed, double_install, NonThreadVars>>

t_check_ignores_flag(t) == ThreadCheck(t, TRUE)

t_check(t) == ThreadCheck(t, ~i2c_initialized)

t_param_config(t) ==
    /\ pc[t] = "config"
    /\ \E rc \in DriverRc :
         IF BSP_ERROR_CHECK_FAILS(rc)
         THEN /\ pc' = [pc EXCEPT ![t] = "done"]
              /\ tret' = [tret EXCEPT ![t] = BSP_ERROR_CHECK_RETURN_ERR(rc)]
         ELSE /\ pc' = [pc EXCEPT ![t] = "install"]
              /\ UNCHANGED tret
    /\ UNCHANGED <<i2c_vars, seen, double_install, NonThreadVars>>

t_driver_install(t) ==
    /\ pc[t] = "install"
    /\ double_install' = (double_install \/ i2c_installed)
    /\ \E rc \in i2c_driver_install_rc :
         IF BSP_ERROR_CHECK_FAILS(rc)
         THEN /\ pc' = [pc EXCEPT ![t] = "done"]
              /\ tret' = [tret EXCEPT ![t] = BSP_ERROR_CHECK_RETURN_ERR(rc)]
              /\ UNCHANGED i2c_installed
         ELSE /\ pc' = [pc EXCEPT ![t] = "set"]
              /\ i2c_installed' = TRUE
              /\ UNCHANGED tret
    /\ UNCHANGED <<i2c_initialized, i2c_cycle_open, seen, NonThreadVars>>

t_set_flag(t) ==
    /\ pc[t] = "set"
    /\ i2c_initialized' = TRUE
    /\ i2c_cycle_open' = TRUE
    /\ pc' = [pc EXCEPT ![t] = "done"]
    /\ tret' = [tret EXCEPT ![t] = ESP_OK]
    /\ UNCHANGED <<i2c_installed, seen, double_install, NonThreadVars>>

\* ------------------------------------------------------------ specifications

\* control bus, storage, audio endpoints and indicator
Next ==
    \/ bsp_i2c_init
    \/ bsp_i2c_deinit
    \/ bsp_spiffs_mount
    \/ bsp_spiffs_unmount
    \/ bsp_sdcard_mount
    \/ bsp_sdcard_unmount
    \/ bsp_audio_init
    \/ bsp_audio_codec_speaker_init
    \/ bsp_audio_codec_microphone_init
    \/ bsp_led_indicator_create

Spec == Init /\ [][Next]_vars

\* button array and button classification
NextButtons ==
    \/ bsp_iot_button_create
    \/ adc_button_sample

SpecButtons == Init /\ [][NextButtons]_vars

\* threads calling bsp_i2c_init concurrently
NextThreads ==
    \E t \in Threads :
      \/ t_check(t)
      \/ t_param_config(t)
      \/ t_driver_install(t)
      \/ t_set_flag(t)

SpecThreads == Init /\ [][NextThreads]_vars

\* ------------------------------------------------------------ properties

DriverCalls(fn) == {i \in 1..Len(calls) : calls[i].fn = fn}

\* C1: once bsp_i2c_init has returned ESP_OK and until bsp_i2c_deinit is
\* called, every bsp_i2c_init returns ESP_OK and calls neither
\* i2c_param_config nor i2c_driver_install.
C1_InitOncePerCycle ==
    [][(i2c_cycle_open /\ op' = "bsp_i2c_init")
         => (ret' = ESP_OK /\ calls' = <<>>)]_vars

\* a repeated bsp_i2c_init, after one that set the bus up, has just returned
C1_Witness ==
    /\ op = "bsp_i2c_init"
    /\ i2c_cycle_open
    /\ i2c_installed
    /\ ret = ESP_OK
    /\ calls = <<>>

\* C2: bsp_i2c_deinit calls i2c_driver_delete; when that fails it returns the
\* error and the flag keeps its value, when it succeeds the flag is false.
C2_DeinitClearsOnlyOnSuccess ==
    [][op' = "bsp_i2c_deinit"
         => /\ Len(calls') = 1
            /\ calls'[1].fn = "i2c_driver_delete"
            /\ (calls'[1].rc # ESP_OK
                  => ret' = calls'[1].rc /\ i2c_initialized' = i2c_initialized)
            /\ (calls'[1].rc = ESP_OK
                  => ret' = ESP_OK /\ i2c_initialized' = FALSE)]_vars

\* the teardown of an initialized bus has just failed and the bus is still
\* marked initialized
C2_Witness ==
    /\ op = "bsp_i2c_deinit"
    /\ ret # ESP_OK
    /\ i2c_initialized
    /\ i2c_installed

\* C3: bsp_i2c_deinit called while the flag is false does not call
\* i2c_driver_delete.
C3_DeinitGuarded ==
    [][(~i2c_initialized /\ op' = "bsp_i2c_deinit")
         => \A i \in 1..Len(calls') : calls'[i].fn # "i2c_driver_delete"]_vars

\* C4: bsp_iot_button_create with btn_array_size < BSP_BUTTON_NUM or a NULL
\* btn_array returns ESP_ERR_INVALID_ARG, calls no driver and writes neither
\* btn_array nor *btn_cnt.
C4_BadArgsRejectedUntouched ==
    [][(/\ op' = "bsp_iot_button_create"
        /\ (args'.btn_array_size < BSP_BUTTON_NUM \/ args'.btn_array_null))
         => /\ ret' = ESP_ERR_INVALID_ARG
            /\ calls' = <<>>
            /\ btn_array' = btn_array
            /\ btn_cnt' = btn_cnt
            /\ adc_unit' = adc_unit
            /\ bsp_adc_handle' = bsp_adc_handle]_vars

\* a capacity of 3 has just been rejected, and the array and count that an
\* earlier complete creation filled are as that creation left them
C4_Witness ==
    /\ op = "bsp_iot_button_create"
    /\ args.btn_array_size = 3
    /\ ~args.btn_array_null
    /\ ~args.btn_cnt_null
    /\ ret = ESP_ERR_INVALID_ARG
    /\ calls = <<>>
    /\ btn_cnt = BSP_BUTTON_NUM
    /\ \A i \in 0..(BSP_BUTTON_NUM - 1) : btn_array[i] # NULL

\* C5: bsp_iot_button_create returns ESP_OK only when iot_button_create was
\* called for all BSP_BUTTON_NUM entries and gave a non-NULL handle each time.
C5_OkOnlyWhenAllCreated ==
    (op = "bsp_iot_button_create" /\ ret = ESP_OK)
      => /\ Cardinality(DriverCalls("iot_button_create")) = BSP_BUTTON_NUM
         /\ \A i \in DriverCalls("iot_button_create") : calls[i].rc # NULL

\* C6: bsp_spiffs_mount returns ESP_OK whenever esp_vfs_spiffs_register
\* succeeded, whatever esp_spiffs_info gave.
C6_InfoFailureNotFatal ==
    (/\ op = "bsp_spiffs_mount"
     /\ \E i \in DriverCalls("esp_vfs_spiffs_register") : calls[i].rc = ESP_OK)
      => ret = ESP_OK

\* C7: the ranges of bsp_button_config share one ADC channel and fall
\* strictly in table order (each range lies wholly below the one before it),
\* so a sample matches at most one button; 2400 mV is REC, 2000 mV is MODE and
\* 2200 mV matches none.
C7_RangesDisjointDescending ==
    /\ \A i \in 1..BSP_BUTTON_NUM :
         /\ bsp_button_config[i].adc_channel = bsp_button_config[1].adc_channel
         /\ bsp_button_config[i].min <= bsp_button_config[i].max
    /\ \A i, j \in 1..BSP_BUTTON_NUM :
         i < j => bsp_button_config[i].min > bsp_button_config[j].max
    /\ op = "adc_button_sample"
         => /\ Cardinality(ret) <= 1
            /\ (args.voltage = 2400 => ret = {BSP_BUTTON_REC})
            /\ (args.voltage = 2000 => ret = {BSP_BUTTON_MODE})
            /\ (args.voltage = 2200 => ret = {})

\* a sample on the lower bound of REC, the bound nearest to MODE, resolved to REC
C7_Witness ==
    /\ op = "adc_button_sample"
    /\ args.voltage = 2310
    /\ ret = {BSP_BUTTON_REC}

\* C8: bsp_sdcard is non-NULL exactly when a card is mounted.
C8_HandleTracksMount ==
    (bsp_sdcard # NULL) <=> (sd_card # NULL)

\* C9: bsp_sdcard_unmount and bsp_spiffs_unmount, called while their backend
\* is not mounted, return an error without calling the unmount driver.
C9_UnmountGuarded ==
    [][/\ (op' = "bsp_sdcard_unmount" /\ sd_card = NULL)
            => (calls' = <<>> /\ ret' # ESP_OK)
       /\ (op' = "bsp_spiffs_unmount" /\ ~spiffs_registered)
            => (calls' = <<>> /\ ret' # ESP_OK)]_vars

\* C10: a mount call made while the backend is already mounted does not call
\* the mount driver and leaves bsp_sdcard as it is.
C10_MountedAtMostOnce ==
    [][/\ (op' = "bsp_sdcard_mount" /\ sd_card # NULL)
            => (calls' = <<>> /\ bsp_sdcard' = bsp_sdcard)
       /\ (op' = "bsp_spiffs_mount" /\ spiffs_registered)
            => calls' = <<>>]_vars

Composers == {ComposerOf(role) : role \in Roles}
RoleOf(name) == CHOOSE role \in Roles : ComposerOf(role) = name
DataIfOf(role) == IF role = "spk" THEN i2s_data_if_spk ELSE i2s_data_if_mic

\* a construction step of a composition that failed
StepFailed(c) ==
    \/ c.fn \in {"bsp_i2c_init", "bsp_audio_init"} /\ c.rc # ESP_OK
    \/ c.fn \in {"audio_codec_new_i2c_ctrl", "es8311_codec_new", "es7210_codec_new"}
       /\ c.rc = NULL

\* C11: in both audio composers a failed step (bsp_i2c_init, bsp_audio_init,
\* a NULL control interface, a NULL codec driver) is the last thing the
\* function does: nothing is called after it, esp_codec_dev_new included, and
\* NULL is returned.
C11_FailedStepAborts ==
    op \in Composers
      => \A i \in 1..Len(calls) :
           StepFailed(calls[i])
             => /\ i = Len(calls)
                /\ ret = NULL
                /\ DriverCalls("esp_codec_dev_new") = {}

\* the speaker composition has just stopped at a NULL control interface, after
\* the bus and the streaming subsystem came up
C11_Witness ==
    /\ op = "bsp_audio_codec_speaker_init"
    /\ ret = NULL
    /\ DriverCalls("bsp_audio_init") # {}
    /\ calls[Len(calls)].fn = "audio_codec_new_i2c_ctrl"
    /\ calls[Len(calls)].rc = NULL

ConstructorCalls ==
    {i \in 1..Len(calls) :
       /\ calls[i].fn \in {"audio_codec_new_gpio", "audio_codec_new_i2c_ctrl",
                           "es8311_codec_new", "es7210_codec_new"}
       /\ calls[i].rc # NULL}
DeleteOf(fn) ==
    IF fn = "audio_codec_new_gpio" THEN "audio_codec_delete_gpio_if"
    ELSE IF fn = "audio_codec_new_i2c_ctrl" THEN "audio_codec_delete_ctrl_if"
    ELSE "audio_codec_delete_codec_if"

\* C12: when a composition returns NULL, every sub-object it constructed has
\* been deleted before the return.
C12_FailedCompositionUnwinds ==
    (op \in Composers /\ ret = NULL)
      => \A i \in ConstructorCalls :
           \E j \in (i + 1)..Len(calls) : calls[j].fn = DeleteOf(calls[i].fn)

\* C13: a composer calls bsp_audio_init only when the streaming interface of
\* its role is absent; an interface, once made, is never replaced; the device
\* is bound to the interface of the composer's role; and a composition none of
\* whose steps fails returns the device esp_codec_dev_new gave, whichever
\* composer ran before.
C13_StreamingSharedOncePerRole ==
    [][op' \in Composers
         => /\ DataIfOf(RoleOf(op')) # NULL
                 => \A i \in 1..Len(calls') : calls'[i].fn # "bsp_audio_init"
            /\ i2s_data_if_spk # NULL => i2s_data_if_spk' = i2s_data_if_spk
            /\ i2s_data_if_mic # NULL => i2s_data_if_mic' = i2s_data_if_mic
            /\ \A i \in 1..Len(calls') :
                 calls'[i].fn = "esp_codec_dev_new"
                   => /\ calls'[i].arg # NULL
                      /\ calls'[i].arg =
                           (IF op' = ComposerOf("spk") THEN i2s_data_if_spk'
                                                       ELSE i2s_data_if_mic')
            /\ (\A i \in 1..Len(calls') : ~StepFailed(calls'[i]))
                 => /\ calls'[Len(calls')].fn = "esp_codec_dev_new"
                    /\ ret' = calls'[Len(calls')].rc]_vars

\* the microphone device has just been composed on the streaming interface an
\* earlier call made: this call did not initialize the streaming subsystem
C13_Witness ==
    /\ op = "bsp_audio_codec_microphone_init"
    /\ ret # NULL
    /\ DriverCalls("bsp_audio_init") = {}
    /\ calls[Len(calls)].fn = "esp_codec_dev_new"
    /\ calls[Len(calls)].arg = I2S_DATA_IF_MIC

\* C16: a composer constructs its I2C control interface and codec driver only
\* while the control bus is initialized.
C16_BusReadyBeforeConstruction ==
    (/\ op \in Composers
     /\ DriverCalls("audio_codec_new_i2c_ctrl") # {})
      => i2c_initialized

\* C17: i2c_initialized is true exactly when the I2C driver is installed; a
\* bsp_i2c_init whose i2c_param_config or i2c_driver_install fails returns that
\* error and leaves the flag false; and bsp_i2c_init called with the flag false
\* starts the hardware setup again.
C17_FlagTracksDriver ==
    /\ [](i2c_initialized <=> i2c_installed)
    /\ [][op' = "bsp_i2c_init"
            => /\ \A i \in 1..Len(calls') :
                    calls'[i].rc # ESP_OK
                      => ret' = calls'[i].rc /\ ~i2c_initialized'
               /\ ~i2c_initialized
                    => Len(calls') >= 1 /\ calls'[1].fn = "i2c_param_config"]_vars

\* bsp_i2c_init has just failed in i2c_driver_install: flag false, no driver
C17_Witness ==
    /\ op = "bsp_i2c_init"
    /\ Len(calls) = 2
    /\ calls[2].fn = "i2c_driver_install"
    /\ ret = calls[2].rc
    /\ ret # ESP_OK
    /\ ~i2c_initialized
    /\ ~i2c_installed

\* C15: bsp_led_indicator_create with a NULL led_array or with
\* led_array_size < 1 returns ESP_ERR_INVALID_ARG without calling
\* led_indicator_create and without writing led_array[0]; otherwise it creates
\* one device and returns ESP_FAIL if the creation gave NULL.
C15_LedBadArgsRejected ==
    [][op' = "bsp_led_indicator_create"
         => IF args'.led_array_null \/ args'.led_array_size < 1
            THEN /\ ret' = ESP_ERR_INVALID_ARG
                 /\ calls' = <<>>
                 /\ led_array' = led_array
            ELSE /\ Len(calls') = 1
                 /\ calls'[1].fn = "led_indicator_create"
                 /\ led_array' = calls'[1].rc
                 /\ (calls'[1].rc = NULL => ret' = ESP_FAIL)]_vars

\* C18: when bsp_iot_button_create passes its argument check with btn_cnt
\* non-NULL, on return *btn_cnt is the number of buttons created, these are
\* btn_array[0 .. *btn_cnt-1], all non-NULL and in table order, creation
\* stopped at the first NULL handle, and the result is ESP_OK if
\* *btn_cnt = BSP_BUTTON_NUM and ESP_FAIL otherwise.
C18_CountMatchesCreated ==
    (/\ op = "bsp_iot_button_create"
     /\ args.btn_array_size >= BSP_BUTTON_NUM
     /\ ~args.btn_array_null
     /\ ~args.btn_cnt_null)
      => LET created == {i \in DriverCalls("iot_button_create") : calls[i].rc # NULL}
             failed == {i \in DriverCalls("iot_button_create") : calls[i].rc = NULL}
         IN  /\ btn_cnt = Cardinality(created)
             /\ \A i \in 0..(btn_cnt - 1) : btn_array[i] = ButtonHandle(i)
             /\ \A i \in failed : i = Len(calls)
             /\ ret = (IF btn_cnt = BSP_BUTTON_NUM THEN ESP_OK ELSE ESP_FAIL)

\* the threads that read i2c_initialized as false
ReadFalse == {t \in Threads : seen[t] = "false"}

\* C14: two threads calling bsp_i2c_init while the flag is false can both
\* read it as false and both invoke the hardware install (the state of
\* C14_Witness is reachable); the hardware setup is run only by a thread that
\* read the flag as false, so an install invoked on an installed driver means
\* that two threads read it as false.
C14_DoubleInitOnlyByRace ==
    /\ \A t \in Threads : pc[t] \in {"config", "install", "set"} => t \in ReadFalse
    /\ double_install => i2c_installed /\ Cardinality(ReadFalse) >= 2

\* two threads have read the flag as false and i2c_driver_install has been
\* invoked on the driver the other thread had installed
C14_Witness ==
    /\ double_install
    /\ \E t, u \in Threads :
         /\ t # u
         /\ seen[t] = "false" /\ pc[t] \in {"set", "done"}
         /\ seen[u] = "false" /\ pc[u] = "done" /\ tret[u] # ESP_OK
====
